---- MODULE Spec2Model ----
(***************************************************************************)
(* Model of js/dag-utils.js: the area partition engine (areaFraction,      *)
(* areaToHeight), the node band composer (drawNode) and the edge geometry  *)
(* composer (shortenLine, drawEdge).                                       *)
(*                                                                         *)
(* Numbers.  The source computes in IEEE doubles; the model computes in    *)
(* binary fixed point, every operation rounding its result to the grid of  *)
(* the quantity it produces:                                               *)
(*   - a pixel quantity x (coordinates, radii, pads, extents handed to     *)
(*     the scene) is the integer x * PX;                                   *)
(*   - an area fraction f is the integer f * F;                            *)
(*   - a height h of the partition engine, which the bisection resolves    *)
(*     to 2r / 2^31, is the integer U = (h / r - 1) * Q, so h = 0 is -Q,   *)
(*     h = r is 0 and h = 2r is Q (for r = 0 every U stands for h = 0);    *)
(*   - a primitive whose coordinates are NaN carries nan = TRUE (in the    *)
(*     source the coordinates of a line are NaN all four together).        *)
(***************************************************************************)
EXTENDS Integers, Sequences, FiniteSets, TLC

VARIABLES
    scene,      \* the drawing surface: the sequence of primitives appended
    before,     \* the scene when the running (or last) call began
    call,       \* the operation and arguments of the running (or last) call
    pc,         \* position inside the running call, "idle" between calls
    pass,       \* drawNode: the band stack being laid out
    cumFrac,    \* drawNode: cumFrac
    prev,       \* drawNode: prev
    idx,        \* drawNode: bands of the current stack already visited
    skipped,    \* drawNode: bands of the current stack dropped for their size
    frac,       \* areaToHeight: frac (kept until the next lookup)
    lo,         \* areaToHeight: lo
    hi,         \* areaToHeight: hi
    iter,       \* areaToHeight: i
    ret,        \* the value returned by the last call that returns one
    origin      \* <<x>> when the argument of the call is the value a call
                \* of the inverse function returned for x, else <<>>

vars == <<scene, before, call, pc, pass, cumFrac, prev, idx, skipped, frac,
          lo, hi, iter, ret, origin>>

----------------------------------------------------------------------------
(* Fixed-point arithmetic                                                  *)

Q == 2^30
F == 2^28
PX == 2^8
K15 == 2^15

Abs(x) == IF x < 0 THEN -x ELSE x
Sgn(x) == IF x > 0 THEN 1 ELSE IF x < 0 THEN -1 ELSE 0
Min(a, b) == IF a < b THEN a ELSE b

\* a * b / Q rounded to nearest, for 0 <= a, b <= Q, in 32-bit pieces.
MulAbs(a, b) ==
    LET ha == a \div K15
        la == a % K15
        hb == b \div K15
        lb == b % K15
        mid == ha * lb + la * hb + ((la * lb) \div K15)
    IN  ha * hb + ((mid + (K15 \div 2)) \div K15)

\* The double product a * b of two quantities one of which is Q-scaled.
MulQ(a, b) == Sgn(a) * Sgn(b) * MulAbs(Abs(a), Abs(b))

\* s * s <= v * Q, exactly, for 0 <= s < Q.
SqLeq(s, v) ==
    LET hs == s \div K15
        ls == s % K15
        c == hs * ls
        hc == c \div (K15 \div 2)
        lc == c % (K15 \div 2)
        low == lc * 2 * K15 + ls * ls
        high == hs * hs + hc + (low \div Q)
    IN  high < v \/ (high = v /\ low % Q = 0)

\* floor(sqrt(w)) for 2^28 <= w < 2^30: two Newton iterations from the chord
\* of the square root, then the exact floor.
NewtonStep(x, w) == (x + (w \div x)) \div 2
ISqrt(w) ==
    LET x == NewtonStep(NewtonStep(((w \div (K15 \div 2)) + K15) \div 3, w), w)
    IN  CHOOSE a \in (x - 1)..(x + 1) : a * a <= w /\ w < (a + 1) * (a + 1)

\* floor(sqrt(w * Q)) for 2^28 <= w < 2^30: the integer root a of w scaled,
\* one Newton correction in double width, then the exact floor.
SqrtNorm(w) ==
    LET a == ISqrt(w)
        s1 == a * K15 + (((w - a * a) * (K15 \div 2)) \div a)
    IN  CHOOSE s \in (s1 - 2)..(s1 + 2) : SqLeq(s, w) /\ ~SqLeq(s + 1, w)

\* Math.sqrt: floor(sqrt(v * Q)), the square root of a Q-scaled v in [0, Q];
\* v is normalised to w = v * 4^k in [2^28, 2^30) first.
SqrtQ(v) ==
    IF v >= Q THEN Q
    ELSE IF v <= 0 THEN 0
    ELSE LET k == CHOOSE j \in 0..14 : v < 2^(30 - 2 * j) /\ v * 4^j >= 2^28
         IN  SqrtNorm(v * 4^k) \div 2^k

\* 1 / Math.PI as a Q-scaled number.
INV_PI == 341782638

----------------------------------------------------------------------------
(* Area partition engine                                                   *)

BisectIters == 30

\* atan(2^-i) as Q-scaled numbers, i = 0 .. 29.
AtanTable ==
    << 843314857, 497837829, 263043837, 133525159, 67021687, 33543516,
       16775851, 8388437, 4194283, 2097149, 1048576, 524288, 262144, 131072,
       65536, 32768, 16384, 8192, 4096, 2048, 1024, 512, 256, 128, 64, 32,
       16, 8, 4, 2 >>

\* One CORDIC rotation of the vector (x, y) towards the x axis.
CordicStep(v, i) ==
    IF v.y >= 0
    THEN [x |-> v.x + (v.y \div 2^i), y |-> v.y - (v.x \div 2^i), z |-> v.z + AtanTable[i + 1]]
    ELSE [x |-> v.x - (v.y \div 2^i), y |-> v.y + (v.x \div 2^i), z |-> v.z - AtanTable[i + 1]]

RECURSIVE Cordic(_, _)
Cordic(v, i) ==
    IF v.y = 0 \/ i >= Len(AtanTable) THEN v.z
    ELSE Cordic(CordicStep(CordicStep(CordicStep(CordicStep(CordicStep(CordicStep(
                    v, i), i + 1), i + 2), i + 3), i + 4), i + 5), i + 6)

\* Math.asin(u) for a Q-scaled u in [-Q, Q], given c = sqrt(1 - u^2): the
\* angle of the vector (c, u).
AsinQ(u, c) == Cordic([x |-> c, y |-> u, z |-> 0], 0)

\* h <= 0 and h >= 2 * r for the height U of a disk of radius r.
HLeqZero(U, r) == (r > 0 /\ U <= -Q) \/ (r < 0 /\ U >= -Q) \/ r = 0
HGeqDiam(U, r) == (r > 0 /\ U >= Q) \/ (r < 0 /\ U <= Q) \/ r = 0

\* HalfPlusOverPi without the 0.5.
HalfPlusOverPi_NoHalf(a) == (MulQ(a, INV_PI) + 2) \div 4

\* The F-scaled fraction 0.5 + a / Math.PI of a Q-scaled a in [-pi/2, pi/2].
HalfPlusOverPi(a) == (F \div 2) + ((MulQ(a, INV_PI) + 2) \div 4)

AreaFraction(U, r) ==
    IF HLeqZero(U, r) THEN 0
    ELSE IF HGeqDiam(U, r) THEN F
    ELSE LET u == U
             c == SqrtQ(Q - MulQ(u, u))
         IN  HalfPlusOverPi(MulQ(u, c) + AsinQ(u, c))

\* BisectStep with the two branches exchanged.
BisectStep_Exchanged(b, f, r) ==
    LET mid == (b.lo + b.hi) \div 2
    IN  IF AreaFraction(mid, r) < f
        THEN [lo |-> b.lo, hi |-> mid]
        ELSE [lo |-> mid, hi |-> b.hi]

\* One iteration of the loop of areaToHeight on the bracket b.
BisectStep(b, f, r) ==
    LET mid == (b.lo + b.hi) \div 2
    IN  IF AreaFraction(mid, r) < f
        THEN [lo |-> mid, hi |-> b.hi]
        ELSE [lo |-> b.lo, hi |-> mid]

\* The height U of a disk of radius r (pixels) as a pixel quantity.
ToPx(U, r) == r + MulQ(r, U)

\* AreaToHeightEntry without the early return for frac >= 1.
AreaToHeightEntry_NoUpperReturn(f) ==
    IF f <= 0 THEN [done |-> TRUE, ret |-> -Q, lo |-> -Q, hi |-> Q]
    ELSE [done |-> FALSE, ret |-> 0, lo |-> -Q, hi |-> Q]

\* The entry of areaToHeight: the value returned at once for a saturated
\* fraction, else the first bracket [0, 2r].
AreaToHeightEntry(f) ==
    IF f <= 0 THEN [done |-> TRUE, ret |-> -Q, lo |-> -Q, hi |-> Q]
    ELSE IF f >= F THEN [done |-> TRUE, ret |-> Q, lo |-> -Q, hi |-> Q]
    ELSE [done |-> FALSE, ret |-> 0, lo |-> -Q, hi |-> Q]

\* The value areaToHeight returns after the loop.
BisectReturn(b) == (b.lo + b.hi) \div 2

\* Where control goes when areaToHeight returns: back into the band loop
\* of drawNode, or to the caller.
ReturnTo == IF call.op = "drawNode" THEN "emit" ELSE "idle"

\* areaToHeight(f, .) begins inside the running call.
EnterAreaToHeight(f) ==
    LET e == AreaToHeightEntry(f)
    IN  /\ frac' = f
        /\ lo' = e.lo
        /\ hi' = e.hi
        /\ iter' = 0
        /\ ret' = IF e.done THEN e.ret ELSE ret
        /\ pc' = IF e.done THEN ReturnTo ELSE "bisect"

\* i < 30
LoopTest(i) == i < BisectIters

\* for (let i = 0; i < 30; i++) { ... }: one iteration.
BisectIter ==
    /\ pc = "bisect"
    /\ LoopTest(iter)
    /\ LET b == BisectStep([lo |-> lo, hi |-> hi], frac, call.r)
       IN  lo' = b.lo /\ hi' = b.hi
    /\ iter' = iter + 1
    /\ UNCHANGED <<scene, before, call, pc, pass, cumFrac, prev, idx, skipped,
                   frac, ret, origin>>

\* The loop is over: return (lo + hi) / 2.
BisectExit ==
    /\ pc = "bisect"
    /\ ~LoopTest(iter)
    /\ ret' = BisectReturn([lo |-> lo, hi |-> hi])
    /\ pc' = ReturnTo
    /\ UNCHANGED <<scene, before, call, pass, cumFrac, prev, idx, skipped,
                   frac, lo, hi, iter, origin>>

----------------------------------------------------------------------------
(* Calls of the partition engine                                           *)

FracSteps == 8
HSteps == 8
MaxTiny == 5
TinyBits == 2

Px(n) == n * PX

\* Radii: a node of 10 px, a node smaller than the minimum band size, and
\* the malformed radii 0 and -4 px.
Radii == {Px(10), PX \div 4, 0, -Px(4)}

\* Fractions handed to areaToHeight: a grid over [0, 1], the fractions next
\* to 0 and to 1, and one fraction on either side of [0, 1].
FracInputs ==
    { k * (F \div FracSteps) : k \in 0..FracSteps }
        \cup { 2^k : k \in 0..TinyBits } \cup { F - k : k \in 1..MaxTiny }
        \cup {-1, F + 1}

\* Heights handed to areaFraction: a grid over [0, 2r], the heights next to
\* 0 and to 2r, and heights on either side of [0, 2r].
HInputs ==
    { 2 * (k * (Q \div HSteps) - (Q \div 2)) : k \in 0..HSteps }
        \cup { k - Q : k \in 1..MaxTiny } \cup { Q - k : k \in 1..MaxTiny }
        \cup {-Q - 1, Q + 1, -Q - (Q \div 2), Q + (Q \div 2)}

StartAreaToHeight(f, r, o) ==
    /\ pc = "idle"
    /\ call' = [op |-> "areaToHeight", arg |-> f, r |-> r]
    /\ origin' = o
    /\ EnterAreaToHeight(f)
    /\ UNCHANGED <<scene, before, pass, cumFrac, prev, idx, skipped>>

StartAreaFraction(h, r, o) ==
    /\ pc = "idle"
    /\ call' = [op |-> "areaFraction", arg |-> h, r |-> r]
    /\ origin' = o
    /\ ret' = AreaFraction(h, r)
    /\ UNCHANGED <<scene, before, pc, pass, cumFrac, prev, idx, skipped, frac,
                   lo, hi, iter>>

\* areaToHeight(frac, r)
CallAreaToHeight ==
    /\ call.op = "none"
    /\ \E f \in FracInputs, r \in Radii : StartAreaToHeight(f, r, <<>>)

\* areaFraction(h, r)
CallAreaFraction ==
    /\ call.op = "none"
    /\ \E h \in HInputs, r \in Radii : StartAreaFraction(h, r, <<>>)

\* areaToHeight(areaFraction(h, r), r)
InvertAreaFraction ==
    /\ call.op = "areaFraction"
    /\ origin = <<>>
    /\ StartAreaToHeight(ret, call.r, <<call.arg>>)

\* areaFraction(areaToHeight(frac, r), r)
InvertAreaToHeight ==
    /\ call.op = "areaToHeight"
    /\ origin = <<>>
    /\ StartAreaFraction(ret, call.r, <<call.arg>>)

----------------------------------------------------------------------------
(* Edge geometry composer                                                  *)

\* An optional argument: undefined, or the value v.
Undefined == [def |-> FALSE, val |-> 0]
Given(v) == [def |-> TRUE, val |-> v]

\* n / d rounded to the grid, d > 0.
RoundDiv(n, d) == (2 * n + d) \div (2 * d)

\* The segment whose four coordinates are NaN.
NaNSegment == [nan |-> TRUE, x1 |-> 0, y1 |-> 0, x2 |-> 0, y2 |-> 0]

\* a * (p / len) for len = Math.sqrt(n) > 0 and |a| <= len, rounded to the
\* grid: the root is taken of n scaled into [2^28, 2^30).
TimesOverLen(a, p, n) ==
    LET k == CHOOSE j \in 0..14 : n < 2^(30 - 2 * j) /\ n * 4^j >= 2^28
    IN  RoundDiv(a * 2^k * p, ISqrt(n * 4^k))

\* ShortenLine applying padStart at both ends.
ShortenLine_StartPadOnly(x1, y1, x2, y2, padStart, padEnd) ==
    LET dx == x2 - x1
        dy == y2 - y1
        sq == dx * dx + dy * dy
    IN  IF sq = 0 THEN NaNSegment
        ELSE [nan |-> FALSE,
              x1 |-> x1 + TimesOverLen(dx, padStart, sq),
              y1 |-> y1 + TimesOverLen(dy, padStart, sq),
              x2 |-> x2 - TimesOverLen(dx, padStart, sq),
              y2 |-> y2 - TimesOverLen(dy, padStart, sq)]

\* With len = 0 every quotient pad / len is NaN or infinite and every
\* product dx * (pad / len) is NaN, as dx = dy = 0.
ShortenLine(x1, y1, x2, y2, padStart, padEnd) ==
    LET pe == IF ~padEnd.def THEN padStart ELSE padEnd.val
        dx == x2 - x1
        dy == y2 - y1
        sq == dx * dx + dy * dy
    IN  IF sq = 0 THEN NaNSegment
        ELSE [nan |-> FALSE,
              x1 |-> x1 + TimesOverLen(dx, padStart, sq),
              y1 |-> y1 + TimesOverLen(dy, padStart, sq),
              x2 |-> x2 - TimesOverLen(dx, pe, sq),
              y2 |-> y2 - TimesOverLen(dy, pe, sq)]

ArrowLen == 18
Gap == 6
BarLen == 20

\* svg.append("line") of the edge itself.
MainLine(line, edge) ==
    [kind |-> "line", nan |-> line.nan,
     x1 |-> line.x1, y1 |-> line.y1, x2 |-> line.x2, y2 |-> line.y2,
     stroke |-> IF edge.blocked THEN "#ccc" ELSE "#666",
     width |-> 2 * PX + edge.strength * 5,
     dash |-> IF edge.blocked THEN "8 6" ELSE "none",
     marker |-> IF edge.blocked THEN "url(#arrow-blocked)" ELSE "url(#arrow-active)",
     opacity |-> IF edge.blocked THEN "0.4" ELSE "0.85"]

\* svg.append("line") of the bar across a blocked edge.  The bar is NaN
\* when the padded line is, and when the padded line has length 0.
BarLine(line) ==
    LET midX == (line.x1 + line.x2) \div 2
        midY == (line.y1 + line.y2) \div 2
        dx == line.x2 - line.x1
        dy == line.y2 - line.y1
        sq == dx * dx + dy * dy
        bx == TimesOverLen(-dy, Px(BarLen), sq)
        by == TimesOverLen(dx, Px(BarLen), sq)
        seg == IF line.nan \/ sq = 0 THEN NaNSegment
               ELSE [nan |-> FALSE, x1 |-> midX - bx, y1 |-> midY - by,
                     x2 |-> midX + bx, y2 |-> midY + by]
    IN  [kind |-> "line", nan |-> seg.nan,
         x1 |-> seg.x1, y1 |-> seg.y1, x2 |-> seg.x2, y2 |-> seg.y2,
         stroke |-> "#E74C3C", width |-> (7 * PX) \div 2, linecap |-> "round"]

\* DrawEdgePrims without the early return for strength 0.
DrawEdgePrims_NoEarlyReturn(edge, nodeRadius) ==
    LET line == ShortenLine(edge.from.x, edge.from.y, edge.to.x, edge.to.y,
                            nodeRadius + Px(Gap),
                            Given(nodeRadius + Px(Gap) + Px(ArrowLen)))
    IN  IF edge.blocked
        THEN <<MainLine(line, edge), BarLine(line)>>
        ELSE <<MainLine(line, edge)>>

\* The primitives one call of drawEdge appends to the scene.
DrawEdgePrims(edge, nodeRadius) ==
    IF edge.strength = 0 THEN <<>>
    ELSE LET line == ShortenLine(edge.from.x, edge.from.y, edge.to.x, edge.to.y,
                                 nodeRadius + Px(Gap),
                                 Given(nodeRadius + Px(Gap) + Px(ArrowLen)))
         IN  IF edge.blocked
             THEN <<MainLine(line, edge), BarLine(line)>>
             ELSE <<MainLine(line, edge)>>

MaxScene == 2

\* Endpoints of the segments handed to shortenLine, and node positions.
Points ==
    { [x |-> Px(0), y |-> Px(0)], [x |-> Px(10), y |-> Px(0)],
      [x |-> Px(50), y |-> Px(0)], [x |-> Px(30), y |-> Px(30)] }
NodePoints ==
    { [x |-> Px(0), y |-> Px(0)], [x |-> Px(50), y |-> Px(0)],
      [x |-> Px(30), y |-> Px(30)] }

Strengths == {0, PX}
EdgeRadii == {Px(4), Px(10)}
Pads == {Px(0), Px(2), Px(3), Px(30)}

\* drawEdge(svg, edge, nodeRadius)
DrawEdge ==
    /\ pc = "idle"
    /\ call.op \in {"none", "drawEdge"}
    /\ Len(scene) < MaxScene
    /\ \E from \in NodePoints, to \in NodePoints, s \in Strengths, b \in BOOLEAN,
          r \in EdgeRadii :
          LET edge == [from |-> from, to |-> to, strength |-> s, blocked |-> b]
          IN  /\ call' = [op |-> "drawEdge", edge |-> edge, r |-> r]
              /\ scene' = scene \o DrawEdgePrims(edge, r)
    /\ before' = scene
    /\ UNCHANGED <<pc, pass, cumFrac, prev, idx, skipped, frac, lo, hi, iter,
                   ret, origin>>

\* shortenLine(x1, y1, x2, y2, padStart, padEnd)
CallShortenLine ==
    /\ pc = "idle"
    /\ call.op = "none"
    /\ \E p \in Points, q \in Points, ps \in Pads,
          pe \in {Undefined} \cup { Given(v) : v \in Pads } :
          /\ call' = [op |-> "shortenLine", x1 |-> p.x, y1 |-> p.y,
                       x2 |-> q.x, y2 |-> q.y, padStart |-> ps, padEnd |-> pe]
          /\ ret' = ShortenLine(p.x, p.y, q.x, q.y, ps, pe)
    /\ UNCHANGED <<scene, before, pc, pass, cumFrac, prev, idx, skipped, frac,
                   lo, hi, iter, origin>>

NextEdge ==
    \/ DrawEdge
    \/ CallShortenLine

----------------------------------------------------------------------------
(* Node band composer                                                      *)

PropMin == 268435
MinSize == PX \div 2

\* A band list that is absent from the bands object.
NoList == [def |-> FALSE, val |-> <<>>]

\* bands.bottomUp || [], bands.topDown || []
OrEmpty(l) == IF l.def THEN l.val ELSE <<>>

\* The band list the current pass walks.
StackList(c, stack) ==
    OrEmpty(IF stack = "bottomUp" THEN c.bands.bottomUp ELSE c.bands.topDown)

\* BaseRect as wide and high as the radius.
BaseRect_RadiusWide(c) ==
    [kind |-> "rect", x |-> c.cx - c.r, y |-> c.cy - c.r,
     width |-> c.r, height |-> c.r,
     fill |-> IF c.baseColor = "" THEN "#bbb" ELSE c.baseColor]

\* The base fill: group.append("rect") over the bounding box.
BaseRect(c) ==
    [kind |-> "rect", x |-> c.cx - c.r, y |-> c.cy - c.r,
     width |-> c.r * 2, height |-> c.r * 2,
     fill |-> IF c.baseColor = "" THEN "#bbb" ELSE c.baseColor]

\* BandRect reaching from the edge of the stack, not from p.
BandRect_FromEdge(c, stack, p, extent, fill) ==
    IF stack = "bottomUp"
    THEN IF c.horiz
         THEN [kind |-> "rect", x |-> c.cx - c.r, y |-> c.cy - c.r,
               width |-> extent, height |-> c.r * 2, fill |-> fill]
         ELSE [kind |-> "rect", x |-> c.cx - c.r, y |-> c.cy + c.r - extent,
               width |-> c.r * 2, height |-> extent, fill |-> fill]
    ELSE IF c.horiz
         THEN [kind |-> "rect", x |-> c.cx + c.r - extent, y |-> c.cy - c.r,
               width |-> extent, height |-> c.r * 2, fill |-> fill]
         ELSE [kind |-> "rect", x |-> c.cx - c.r, y |-> c.cy - c.r,
               width |-> c.r * 2, height |-> extent, fill |-> fill]

\* The rectangle of a band that reaches from the extent p to extent.
BandRect(c, stack, p, extent, fill) ==
    LET size == extent - p
        diam == c.r * 2
    IN  IF stack = "bottomUp"
        THEN IF c.horiz
             THEN [kind |-> "rect", x |-> c.cx - c.r + p, y |-> c.cy - c.r,
                   width |-> size, height |-> diam, fill |-> fill]
             ELSE [kind |-> "rect", x |-> c.cx - c.r, y |-> c.cy + c.r - extent,
                   width |-> diam, height |-> size, fill |-> fill]
        ELSE IF c.horiz
             THEN [kind |-> "rect", x |-> c.cx + c.r - extent, y |-> c.cy - c.r,
                   width |-> size, height |-> diam, fill |-> fill]
             ELSE [kind |-> "rect", x |-> c.cx - c.r, y |-> c.cy - c.r + p,
                   width |-> diam, height |-> size, fill |-> fill]

\* The outline: svg.append("circle").
OutlineCircle(c) ==
    [kind |-> "circle", cx |-> c.cx, cy |-> c.cy, r |-> c.r, fill |-> "none",
     stroke |-> "#333", width |-> 2 * PX]

\* svg.append("g") with the base fill already in it.
NewGroup(c) == [kind |-> "g", clip |-> c.clipId, children |-> <<BaseRect(c)>>]

\* group.append(rect), the group being the primitive appended at position g.
GroupAppend(sc, g, rect) == [sc EXCEPT ![g].children = Append(@, rect)]

\* Accumulate forgetting the fraction accumulated so far.
Accumulate_Overwrite(cum, prop) == prop

\* cumFrac += band.prop
Accumulate(cum, prop) == cum + prop

MaxBands == 2

\* Proportions: the negligible threshold itself, 0.002 (too small for the
\* minimum size at 10 px), 0.3 and 0.7 (which sum to 1), 1, and 1.5.
Props ==
    { PropMin, 2 * PropMin + 1, (3 * F + 5) \div 10, (7 * F + 5) \div 10, F,
      F + (F \div 2) }

BottomFills == <<"b1", "b2", "b3", "b4">>
TopFills == <<"t1", "t2", "t3", "t4">>

NodeRadii == {Px(10), PX \div 4, -Px(4)}

PropLists == UNION { [1..k -> Props] : k \in 0..MaxBands }

\* The band list with proportions ps, or for no proportions also no list.
BandLists(ps, fills) ==
    IF ps = <<>> THEN {NoList, Given(<<>>)}
    ELSE {Given([i \in 1..Len(ps) |-> [prop |-> ps[i], fill |-> fills[i]]])}

BandArgs ==
    UNION { { [bottomUp |-> b, topDown |-> t] :
                b \in BandLists(ps[1], BottomFills), t \in BandLists(ps[2], TopFills) } :
            ps \in { qs \in PropLists \X PropLists : Len(qs[1]) + Len(qs[2]) <= MaxBands } }

\* drawNode(svg, cx, cy, nodeRadius, clipId, bands, orientation, baseColor)
\* up to the first band loop.
DrawNode ==
    /\ pc = "idle"
    /\ call.op = "none"
    /\ \E r \in NodeRadii, bands \in BandArgs, horiz \in BOOLEAN :
          LET c == [op |-> "drawNode", cx |-> Px(20), cy |-> Px(30), r |-> r,
                    clipId |-> "clip", bands |-> bands, horiz |-> horiz,
                    baseColor |-> ""]
          IN  /\ call' = c
              /\ scene' = Append(scene, NewGroup(c))
    /\ before' = scene
    /\ pc' = "bands"
    /\ pass' = "bottomUp"
    /\ cumFrac' = 0
    /\ prev' = 0
    /\ idx' = 0
    /\ skipped' = 0
    /\ frac' = 0
    /\ UNCHANGED <<lo, hi, iter, ret, origin>>

\* The next band has band.prop <= 0.001: the loop moves on.
BandNegligible ==
    /\ pc = "bands"
    /\ idx < Len(StackList(call, pass))
    /\ ~(StackList(call, pass)[idx + 1].prop > PropMin)
    /\ idx' = idx + 1
    /\ UNCHANGED <<scene, before, call, pc, pass, cumFrac, prev, skipped, frac,
                   lo, hi, iter, ret, origin>>

\* The next band has band.prop > 0.001: cumFrac grows and areaToHeight is
\* called with Math.min(cumFrac, 1).
BandLookup ==
    /\ pc = "bands"
    /\ idx < Len(StackList(call, pass))
    /\ StackList(call, pass)[idx + 1].prop > PropMin
    /\ cumFrac' = Accumulate(cumFrac, StackList(call, pass)[idx + 1].prop)
    /\ EnterAreaToHeight(Min(cumFrac', F))
    /\ UNCHANGED <<scene, before, call, pass, prev, idx, skipped, origin>>

\* areaToHeight has returned the extent: the rectangle is appended if its
\* size exceeds 0.5, and prev = extent.
BandEmit ==
    /\ pc = "emit"
    /\ LET extent == ToPx(ret, call.r)
           band == StackList(call, pass)[idx + 1]
       IN  /\ IF extent - prev > MinSize
              THEN /\ scene' = GroupAppend(scene, Len(before) + 1,
                                            BandRect(call, pass, prev, extent, band.fill))
                   /\ skipped' = skipped
              ELSE /\ scene' = scene
                   /\ skipped' = skipped + 1
           /\ prev' = extent
    /\ idx' = idx + 1
    /\ pc' = "bands"
    /\ UNCHANGED <<before, call, pass, cumFrac, frac, lo, hi, iter, ret, origin>>

\* The primary loop is over: cumFrac = 0; prev = 0; and the secondary loop.
NextStack ==
    /\ pc = "bands"
    /\ pass = "bottomUp"
    /\ idx >= Len(StackList(call, pass))
    /\ pass' = "topDown"
    /\ cumFrac' = 0
    /\ prev' = 0
    /\ idx' = 0
    /\ skipped' = 0
    /\ frac' = 0
    /\ UNCHANGED <<scene, before, call, pc, lo, hi, iter, ret, origin>>

\* The secondary loop is over: the outline is appended and drawNode returns.
DrawOutline ==
    /\ pc = "bands"
    /\ pass = "topDown"
    /\ idx >= Len(StackList(call, pass))
    /\ scene' = Append(scene, OutlineCircle(call))
    /\ pc' = "idle"
    /\ UNCHANGED <<before, call, pass, cumFrac, prev, idx, skipped, frac, lo, hi,
                   iter, ret, origin>>

NextNode ==
    \/ DrawNode
    \/ BandNegligible
    \/ BandLookup
    \/ BisectIter
    \/ BisectExit
    \/ BandEmit
    \/ NextStack
    \/ DrawOutline

Init ==
    /\ scene = <<>>
    /\ before = <<>>
    /\ call = [op |-> "none"]
    /\ pc = "idle"
    /\ pass = "none"
    /\ cumFrac = 0
    /\ prev = 0
    /\ idx = 0
    /\ skipped = 0
    /\ frac = 0
    /\ lo = 0
    /\ hi = 0
    /\ iter = 0
    /\ ret = 0
    /\ origin = <<>>

NextArea ==
    \/ CallAreaToHeight
    \/ CallAreaFraction
    \/ InvertAreaFraction
    \/ InvertAreaToHeight
    \/ BisectIter
    \/ BisectExit

SpecArea == Init /\ [][NextArea]_vars

SpecEdge == Init /\ [][NextEdge]_vars

SpecNode == Init /\ [][NextNode]_vars

Next == NextArea \/ NextEdge \/ NextNode

Spec == Init /\ [][Next]_vars

----------------------------------------------------------------------------
(* Properties of the edge geometry composer                                *)

\* The square root of an integer 0 <= n < 2^30, rounded to the grid.
RoundSqrt(n) ==
    IF n <= 0 THEN 0
    ELSE LET k == CHOOSE j \in 0..14 : n < 2^(30 - 2 * j) /\ n * 4^j >= 2^28
             a == ISqrt(n * 4^k) \div 2^k
         IN  IF n - a * a > a THEN a + 1 ELSE a

\* The primitives the running (or last) call has appended.
Appended == SubSeq(scene, Len(before) + 1, Len(scene))

\* C1: drawEdge with an edge of strength 0 appends nothing, whatever from,
\* to, blocked and nodeRadius are: the scene after the call is the scene
\* before it.
C1_ZeroStrengthNoOp ==
    (call.op = "drawEdge" /\ call.edge.strength = 0) => scene = before

C1_Witness ==
    /\ call.op = "drawEdge"
    /\ call.edge.strength = 0
    /\ call.edge.from = call.edge.to
    /\ call.edge.blocked
    /\ Len(before) > 0
    /\ scene = before

\* The bar b is centred on the line l, perpendicular to it in the direction
\* (-dy, dx), and reaches BarLen to either side, up to the rounding of the
\* grid.
BarAcross(b, l) ==
    LET dx == l.x2 - l.x1
        dy == l.y2 - l.y1
        bx == b.x2 - b.x1
        by == b.y2 - b.y1
    IN  /\ ~l.nan
        /\ ~b.nan
        /\ Abs((b.x1 + b.x2) - (l.x1 + l.x2)) <= 2
        /\ Abs((b.y1 + b.y2) - (l.y1 + l.y2)) <= 2
        /\ Abs(bx * dx + by * dy) <= Abs(dx) + Abs(dy)
        /\ by * dx - bx * dy > 0
        /\ Abs(RoundSqrt(bx * bx + by * by) - 2 * Px(BarLen)) <= 2

\* C2: drawEdge with strength # 0 on distinct endpoints appends one main
\* line and, when blocked, then exactly one bar, centred on the midpoint of
\* the padded line, perpendicular to it along (-dy, dx) / len, its ends 20
\* to either side of the midpoint; when not blocked it appends the line only.
C2_BlockedBar ==
    (call.op = "drawEdge" /\ call.edge.strength # 0
        /\ call.edge.from # call.edge.to) =>
        IF call.edge.blocked
        THEN /\ Len(Appended) = 2
             /\ Appended[1].stroke = "#ccc"
             /\ Appended[2].stroke = "#E74C3C"
             /\ BarAcross(Appended[2], Appended[1])
        ELSE /\ Len(Appended) = 1
             /\ Appended[1].stroke = "#666"

\* A call of shortenLine on distinct endpoints (every pad of Pads is >= 0).
ShortenCall ==
    /\ call.op = "shortenLine"
    /\ <<call.x1, call.y1>> # <<call.x2, call.y2>>

\* The pad shortenLine applies at the end: padStart when padEnd is omitted.
EndPad == IF call.padEnd.def THEN call.padEnd.val ELSE call.padStart

\* The point (px, py) lies at distance d from (ax, ay) in the direction
\* (dx, dy), up to the rounding of the grid.
Along(ax, ay, px, py, dx, dy, d) ==
    /\ Abs(RoundSqrt((px - ax) * (px - ax) + (py - ay) * (py - ay)) - d) <= 2
    /\ 2 * Abs((px - ax) * dy - (py - ay) * dx) <= Abs(dx) + Abs(dy)
    /\ (px - ax) * dx + (py - ay) * dy >= 0

\* Both ends of the returned segment are moved inward by their pads.
EndsMovedInward ==
    LET dx == call.x2 - call.x1
        dy == call.y2 - call.y1
    IN  /\ ~ret.nan
        /\ Along(call.x1, call.y1, ret.x1, ret.y1, dx, dy, call.padStart)
        /\ Along(call.x2, call.y2, ret.x2, ret.y2, -dx, -dy, EndPad)

\* The scalar product of the returned segment with the original one.
ReturnedDotOriginal ==
    (ret.x2 - ret.x1) * (call.x2 - call.x1) + (ret.y2 - ret.y1) * (call.y2 - call.y1)

\* (padStart + padEnd)^2 - len^2
PadsOverLength ==
    (call.padStart + EndPad) * (call.padStart + EndPad)
        - (call.x2 - call.x1) * (call.x2 - call.x1)
        - (call.y2 - call.y1) * (call.y2 - call.y1)

\* shortenLine(0, 0, 10, 0, 2, 3) = {x1: 2, y1: 0, x2: 7, y2: 0}
ShortenExample ==
    (call.x1 = 0 /\ call.y1 = 0 /\ call.x2 = Px(10) /\ call.y2 = 0
        /\ call.padStart = Px(2) /\ call.padEnd = Given(Px(3))) =>
        ret = [nan |-> FALSE, x1 |-> Px(2), y1 |-> 0, x2 |-> Px(7), y2 |-> 0]

\* C3 as stated: on distinct endpoints with pads >= 0 the start of the
\* returned segment lies padStart from (x1, y1) and its end padEnd (padStart
\* if omitted) from (x2, y2), both moved inward along the original
\* direction, and the returned segment always points in the direction of
\* the original one; shortenLine(0,0,10,0,2,3) = {2,0,7,0}.
C3_NeverReversed ==
    ShortenCall => EndsMovedInward /\ ShortenExample /\ ReturnedDotOriginal > 0

\* C3 amended: as above, but the returned segment points in the direction
\* of the original one only while padStart + padEnd is less than the length
\* of the segment, and in the opposite direction once the pads exceed it.
C3_DirectionWhilePadsFit ==
    ShortenCall =>
        /\ EndsMovedInward
        /\ ShortenExample
        /\ PadsOverLength < 0 => ReturnedDotOriginal > 0
        /\ PadsOverLength > 0 => ReturnedDotOriginal < 0

C3_Witness ==
    /\ ShortenCall
    /\ ~call.padEnd.def
    /\ call.padStart > 0
    /\ PadsOverLength > 0
    /\ ReturnedDotOriginal < 0

----------------------------------------------------------------------------
(* Properties of the partition engine                                      *)

\* The bisection runs on an interior fraction for a positive radius.
InteriorLookup == call.r > 0 /\ frac > 0 /\ frac < F

\* C10: for 0 < f < 1 and r > 0 the loop of areaToHeight is left after
\* exactly 30 iterations, the iteration count being the variant that ends it
\* (while the loop runs, either its test holds and it iterates or it exits);
\* at every iteration 0 <= lo <= hi <= 2r and areaFraction(lo, r) < f <=
\* areaFraction(hi, r), and hi - lo is 2r / 2^i after i iterations; the
\* value returned lies inside the last bracket, whose width is 2r / 2^30.
C10_BisectionBracket ==
    /\ (pc = "bisect" /\ InteriorLookup) =>
          /\ iter \in 0..BisectIters
          /\ LoopTest(iter) \/ iter = BisectIters
          /\ -Q <= lo /\ lo <= hi /\ hi <= Q
          /\ AreaFraction(lo, call.r) < frac
          /\ frac <= AreaFraction(hi, call.r)
          /\ (hi \div 2) - (lo \div 2) = Q \div 2^iter
    /\ (pc = "idle" /\ call.op = "areaToHeight" /\ InteriorLookup) =>
          /\ iter = BisectIters
          /\ hi - lo = 2
          /\ lo < ret /\ ret < hi

C10_Witness ==
    /\ pc = "idle"
    /\ call.op = "areaToHeight"
    /\ call.r = Px(10)
    /\ call.arg = F \div 4
    /\ iter = BisectIters
    /\ hi - lo = 2
    /\ ret = lo + 1

\* areaFraction(areaToHeight(f, r), r) has returned, for r > 0 and f in [0,1].
FracRoundTrip ==
    /\ pc = "idle"
    /\ call.op = "areaFraction"
    /\ origin # <<>>
    /\ call.r > 0
    /\ origin[1] \in 0..F

\* areaToHeight(areaFraction(h, r), r) has returned, for r > 0, h in [0,2r].
HeightRoundTrip ==
    /\ pc = "idle"
    /\ call.op = "areaToHeight"
    /\ origin # <<>>
    /\ call.r > 0
    /\ origin[1] \in (-Q)..Q

\* The height got back is the height put in within 10^-4 of the radius.
HeightRestored == HeightRoundTrip => Abs(ret - origin[1]) <= Q \div 10^4

----------------------------------------------------------------------------
(* Properties of the node band composer                                    *)

\* The clipped group of the running (or last) drawNode call.
Group == scene[Len(before) + 1]

FillsOf(stack) == IF stack = "bottomUp" THEN BottomFills ELSE TopFills
FillSet(stack) == { FillsOf(stack)[i] : i \in 1..Len(FillsOf(stack)) }

\* The rectangles emitted so far for the bands of a stack, in scene order.
StackRects(stack) ==
    SelectSeq(Tail(Group.children), LAMBDA e : e.fill \in FillSet(stack))

\* The position in its list of the band a rectangle was emitted for.
BandOf(e, stack) ==
    CHOOSE i \in 1..Len(FillsOf(stack)) : FillsOf(stack)[i] = e.fill

\* The interval a rectangle covers, measured from the edge of its stack:
\* the bottom or the left for bottomUp, the top or the right for topDown.
RectSize(e) == IF call.horiz THEN e.width ELSE e.height
RectStart(e, stack) ==
    IF stack = "bottomUp"
    THEN IF call.horiz THEN e.x - (call.cx - call.r)
         ELSE (call.cy + call.r) - (e.y + e.height)
    ELSE IF call.horiz THEN (call.cx + call.r) - (e.x + e.width)
         ELSE e.y - (call.cy - call.r)
RectEnd(e, stack) == RectStart(e, stack) + RectSize(e)

\* The sum of the first k proportions of a list, and the sum of those of
\* them that exceed the negligible threshold.
RECURSIVE SumProps(_, _)
SumProps(list, k) ==
    IF k = 0 THEN 0 ELSE SumProps(list, k - 1) + list[k].prop
RECURSIVE SumCounted(_, _)
SumCounted(list, k) ==
    IF k = 0 THEN 0
    ELSE SumCounted(list, k - 1) + (IF list[k].prop > PropMin THEN list[k].prop ELSE 0)

\* Every proportion of the list lies in [0, 1].
ProportionsValid(list) == \A i \in 1..Len(list) : list[i].prop \in 0..F

\* The rectangles R cover [from, to] without gap or overlap.
Contiguous(R, stack, from, to) ==
    IF Len(R) = 0 THEN from = to
    ELSE /\ RectStart(R[1], stack) = from
         /\ \A i \in 1..(Len(R) - 1) : RectStart(R[i + 1], stack) = RectEnd(R[i], stack)
         /\ RectEnd(R[Len(R)], stack) = to

\* The rectangles R lie in [0, to] in list order without overlap.
Ordered(R, stack, to) ==
    /\ \A i \in 1..Len(R) : RectStart(R[i], stack) >= 0 /\ RectSize(R[i]) > MinSize
    /\ \A i \in 1..(Len(R) - 1) : RectStart(R[i + 1], stack) >= RectEnd(R[i], stack)
    /\ Len(R) > 0 => RectEnd(R[Len(R)], stack) <= to

RECURSIVE SumSizes(_, _)
SumSizes(R, k) == IF k = 0 THEN 0 ELSE SumSizes(R, k - 1) + RectSize(R[k])

\* drawNode is between two bands of a stack (or past the last one), called
\* with a positive radius and proportions in [0, 1].
BetweenBands ==
    /\ call.op = "drawNode"
    /\ pc = "bands"
    /\ call.r > 0
    /\ ProportionsValid(StackList(call, pass))

\* C4: at every point of a drawNode call the primitives emitted are the
\* clipped group, holding first the base rectangle over [cx-r, cx+r] x
\* [cy-r, cy+r], then the primary rectangles, then the secondary ones; the
\* call ends with exactly one outline circle, appended to the scene itself
\* after the group.
C4_EmissionOrder ==
    call.op = "drawNode" =>
        LET ch == Group.children
        IN  /\ Len(scene) = Len(before) + (IF pc = "idle" THEN 2 ELSE 1)
            /\ SubSeq(scene, 1, Len(before)) = before
            /\ Group.kind = "g"
            /\ Group.clip = call.clipId
            /\ \A i \in 1..Len(ch) : ch[i].kind = "rect"
            /\ ch[1].fill = "#bbb"
            /\ ch[1].x = call.cx - call.r /\ ch[1].x + ch[1].width = call.cx + call.r
            /\ ch[1].y = call.cy - call.r /\ ch[1].y + ch[1].height = call.cy + call.r
            /\ \A i \in 2..Len(ch) : ch[i].fill \in FillSet("bottomUp") \cup FillSet("topDown")
            /\ \A i \in 2..Len(ch) : \A j \in (i + 1)..Len(ch) :
                  ch[i].fill \in FillSet("topDown") => ch[j].fill \in FillSet("topDown")
            /\ pass = "bottomUp" => Len(StackRects("topDown")) = 0
            /\ pc = "idle" =>
                  /\ scene[Len(scene)].kind = "circle"
                  /\ scene[Len(scene)].cx = call.cx
                  /\ scene[Len(scene)].cy = call.cy
                  /\ scene[Len(scene)].r = call.r

C4_Witness ==
    /\ call.op = "drawNode"
    /\ pc = "idle"
    /\ Len(StackRects("bottomUp")) = 1
    /\ Len(StackRects("topDown")) = 1
    /\ Len(Group.children) = 3
    /\ scene[Len(scene)].kind = "circle"

\* C5 as stated: within a stack, for proportions in [0, 1], the rectangles
\* emitted for successive bands leave no gap: together they cover the
\* interval from 0 to the extent the stack has reached, measured from the
\* edge of the stack.
C5_NoGap ==
    BetweenBands => Contiguous(StackRects(pass), pass, 0, prev)

\* C5 amended: the rectangles of a stack lie in list order without overlap
\* between 0 and the extent reached; what they leave uncovered are the
\* intervals of the bands dropped for a size of at most 0.5, so they cover
\* the interval from 0 to the extent reached when no band was dropped so.
C5_GapsOnlyWhereDropped ==
    BetweenBands =>
        LET R == StackRects(pass)
        IN  /\ Ordered(R, pass, prev)
            /\ prev - SumSizes(R, Len(R)) <= skipped * MinSize
            /\ skipped = 0 => Contiguous(R, pass, 0, prev)

C5_Witness ==
    /\ BetweenBands
    /\ call.r = Px(10)
    /\ pass = "topDown"
    /\ idx = 2
    /\ skipped = 0
    /\ Len(StackRects(pass)) = 2
    /\ prev = 2 * call.r

\* C9 as stated: at every point of a stack pass the cumulative fraction is
\* the sum of the proportions of all the bands visited, and the extent
\* reached is the height looked up for that sum, capped at 1.
C9_EveryBandCounted ==
    (call.op = "drawNode" /\ pc = "bands") =>
        /\ cumFrac = SumProps(StackList(call, pass), idx)
        /\ frac = Min(cumFrac, F)
        /\ prev = IF cumFrac = 0 THEN 0 ELSE ToPx(ret, call.r)

\* C9 amended: the cumulative fraction is the sum of the proportions above
\* the negligible threshold 0.001 among the bands visited (a band dropped
\* for its size is counted, a band at or below the threshold is not), and
\* the extent reached is the height looked up for that sum, capped at 1.
C9_BandsAboveThresholdCounted ==
    (call.op = "drawNode" /\ pc = "bands") =>
        /\ cumFrac = SumCounted(StackList(call, pass), idx)
        /\ frac = Min(cumFrac, F)
        /\ prev = IF cumFrac = 0 THEN 0 ELSE ToPx(ret, call.r)

C9_Witness ==
    /\ call.op = "drawNode"
    /\ pc = "bands"
    /\ call.r = Px(10)
    /\ idx = 2
    /\ skipped = 1
    /\ cumFrac > 0
    /\ cumFrac < SumProps(StackList(call, pass), idx)

\* areaToHeight and areaFraction saturate: a lookup of frac <= 0 returns 0
\* and one of frac >= 1 returns 2r; the fraction of h <= 0 is 0 and that of
\* h >= 2r is 1 (r > 0).
EngineSaturates ==
    /\ (pc = "idle" /\ call.op = "areaToHeight" /\ call.arg <= 0) =>
          ret = -Q /\ ToPx(ret, call.r) = 0
    /\ (pc = "idle" /\ call.op = "areaToHeight" /\ call.arg >= F) =>
          ret = Q /\ ToPx(ret, call.r) = 2 * call.r
    /\ (call.op = "areaFraction" /\ call.r > 0 /\ call.arg <= -Q) => ret = 0
    /\ (call.op = "areaFraction" /\ call.r > 0 /\ call.arg >= Q) => ret = F

\* In a stack of drawNode (r > 0) the extent is 2r once the cumulative
\* fraction has reached 1, every extent and every rectangle stays in
\* [0, 2r], and no rectangle comes from a band behind the one that took the
\* cumulative fraction to 1.
StackSaturates ==
    (call.op = "drawNode" /\ call.r > 0) =>
        /\ (pc = "emit" /\ cumFrac >= F) => ret = Q /\ ToPx(ret, call.r) = 2 * call.r
        /\ pc = "bands" =>
              /\ 0 <= prev /\ prev <= 2 * call.r
              /\ cumFrac >= F => prev = 2 * call.r
        /\ \A stack \in {"bottomUp", "topDown"} :
              \A i \in 1..Len(StackRects(stack)) :
                  LET e == StackRects(stack)[i]
                  IN  /\ 0 <= RectStart(e, stack)
                      /\ RectEnd(e, stack) <= 2 * call.r
                      /\ SumCounted(StackList(call, stack), BandOf(e, stack) - 1) < F

\* drawNode (r > 0) has returned and the stack held a single band, of
\* proportion 1.
SingleFullBand(stack) ==
    /\ call.op = "drawNode"
    /\ call.r > 0
    /\ pc = "idle"
    /\ Len(StackList(call, stack)) = 1
    /\ StackList(call, stack)[1].prop = F

\* The stack has exactly one rectangle, and it is the bounding box.
OneRectOverBox(stack) ==
    /\ Len(StackRects(stack)) = 1
    /\ LET e == StackRects(stack)[1]
       IN  /\ e.x = call.cx - call.r /\ e.y = call.cy - call.r
           /\ e.width = 2 * call.r /\ e.height = 2 * call.r
           /\ RectStart(e, stack) = 0 /\ RectEnd(e, stack) = 2 * call.r

\* C6 as stated: the lookups saturate; so in a stack the extent is exactly
\* 2r once the cumulative proportion reaches 1, extents stay in [0, 2r],
\* later bands emit nothing, and a single band of proportion 1 emits one
\* rectangle of extent 2r over the whole bounding box.
C6_FullBandAlwaysDrawn ==
    /\ EngineSaturates
    /\ StackSaturates
    /\ \A stack \in {"bottomUp", "topDown"} :
          SingleFullBand(stack) => OneRectOverBox(stack)

\* C6 amended: as stated, but the single band of proportion 1 emits its
\* rectangle only if the diameter 2r exceeds the minimum size 0.5, and
\* nothing otherwise.
C6_FullBandDrawnAboveMinSize ==
    /\ EngineSaturates
    /\ StackSaturates
    /\ \A stack \in {"bottomUp", "topDown"} :
          SingleFullBand(stack) =>
              IF 2 * call.r > MinSize THEN OneRectOverBox(stack)
              ELSE Len(StackRects(stack)) = 0

C6_Witness ==
    /\ call.op = "drawNode"
    /\ call.r = Px(10)
    /\ pc = "bands"
    /\ pass = "bottomUp"
    /\ idx = 2
    /\ StackList(call, pass)[1].prop = F
    /\ StackList(call, pass)[2].prop > PropMin
    /\ cumFrac > F
    /\ prev = 2 * call.r
    /\ Len(StackRects(pass)) = 1

----------------------------------------------------------------------------
(* Malformed input                                                         *)

\* The running (or last) call has a negative radius or a proportion outside
\* [0, 1] (drawNode), or coincident endpoints (shortenLine; drawEdge for an
\* edge that is drawn, strength 0 being its no-op).
Malformed ==
    \/ /\ call.op = "drawNode"
       /\ \/ call.r < 0
          \/ ~ProportionsValid(StackList(call, "bottomUp"))
          \/ ~ProportionsValid(StackList(call, "topDown"))
    \/ /\ call.op = "shortenLine"
       /\ <<call.x1, call.y1>> = <<call.x2, call.y2>>
    \/ /\ call.op = "drawEdge"
       /\ call.edge.from = call.edge.to
       /\ call.edge.strength # 0

\* C7: a call with malformed input emits no primitive and never returns
\* normally.
C7_FailFast == Malformed => (scene = before /\ pc # "idle")

====
